---- MODULE Spec2Model ----
(***************************************************************************)
(* Runtime execution dispatcher of the KeyMe grbl fork                     *)
(* (protocol_execute_runtime and its callers, protocol.c), modelled as a   *)
(* state machine.  The main context runs one C statement that touches a    *)
(* variable shared with interrupt context per step; interrupt context     *)
(* (serial, limit pins, stepper) may set flag bits between any two steps.  *)
(***************************************************************************)
EXTENDS Naturals, Integers, FiniteSets, Sequences, TLC

(***************************************************************************)
(* Bounds of the model.                                                    *)
(***************************************************************************)
MaxPlanBlocks == 2

\* Interrupts taken between two (re)initialisations of the system.
MaxInterrupts == 3

(***************************************************************************)
(* Flag bits of SYS_EXEC, report request bits, machine states.             *)
(***************************************************************************)
EXEC_RESET == "RESET"
EXEC_ALARM == "ALARM"
EXEC_CRIT_EVENT == "CRIT_EVENT"
EXEC_FEED_HOLD == "FEED_HOLD"
EXEC_CYCLE_START == "CYCLE_START"
EXEC_CYCLE_STOP == "CYCLE_STOP"
EXEC_RUNTIME_REPORT == "RUNTIME_REPORT"

ExecFlags ==
  {EXEC_RESET, EXEC_ALARM, EXEC_CRIT_EVENT, EXEC_FEED_HOLD,
   EXEC_CYCLE_START, EXEC_CYCLE_STOP, EXEC_RUNTIME_REPORT}

REQUEST_STATUS_REPORT == "STATUS"
REQUEST_LIMIT_REPORT == "LIMIT"
REQUEST_COUNTER_REPORT == "COUNTER"
REQUEST_VOLTAGE_REPORT == "VOLTAGE"
REQUEST_EDGE_REPORT == "EDGE"

ReportRequests ==
  {REQUEST_STATUS_REPORT, REQUEST_LIMIT_REPORT, REQUEST_COUNTER_REPORT,
   REQUEST_VOLTAGE_REPORT, REQUEST_EDGE_REPORT}

STATE_IDLE == "IDLE"
STATE_QUEUED == "QUEUED"
STATE_CYCLE == "CYCLE"
STATE_HOLD == "HOLD"
STATE_ALARM == "ALARM"
STATE_HOMING == "HOMING"
STATE_FORCESERVO == "FORCESERVO"
STATE_PROBING == "PROBING"

MachineStates ==
  {STATE_IDLE, STATE_QUEUED, STATE_CYCLE, STATE_HOLD, STATE_ALARM,
   STATE_HOMING, STATE_FORCESERVO, STATE_PROBING}

VARIABLES
  SYS_EXEC,        \* the volatile flag word, as the set of bits that are set
  rt_exec,         \* the pass's copy of the flag word
  sys_state,       \* sys.state
  sys_old_state,   \* sys.old_state
  sys_abort,       \* sys.abort
  sys_autostart,   \* sys.flags & SYSFLAG_AUTOSTART
  settings_auto_start, \* settings.flags & BITFLAG_AUTO_START
  report_rqsts,    \* sysflags.report_rqsts
  reports,         \* the pass's local copy of the request set
  plan_blocks,     \* blocks in the planner queue (a current block exists iff > 0)
  pc,              \* position of the main context
  interrupts,      \* interrupts taken since the system was initialised
  \* history of the pass in progress (or of the pass that has just returned)
  state0,          \* sys.state when the pass took its snapshot
  acted,           \* flag bits whose handler ran in this pass
  cleared,         \* flag bits this pass removed from SYS_EXEC
  calls,           \* engine calls of this pass, in order
  emitted,         \* messages and reports this pass emitted
  reports_read,    \* the request set as the pass read it
  block_seen,      \* what plan_get_current_block() answered to the CycleStop handler
  \* the caller of the dispatcher
  caller,          \* "main_loop" or "buffer_synchronize"
  sync_ret,        \* how the last protocol_buffer_synchronize() call returned
  \* systick.c
  SysTick,         \* the millisecond counter
  systick_len,     \* uint8_t systick_len
  systick_callbacks_array, \* the table, slot i at position i + 1
  fired,           \* the invocations made by the last systick call
  last_registered, \* the last registration made since the last service call
  systick_ub,      \* the undefined behaviour the scheduler has run into, if any
  \* stepper: the segment ring
  segment_buffer_head, \* index of the next segment to execute (pulse interrupt)
  segment_buffer_tail, \* index of the next slot to fill (st_prep_buffer)
  prep_pc,             \* position of the main context inside st_prep_buffer
  segments_made,       \* segments enqueued so far
  segments_executed,   \* segments taken out by the pulse interrupt so far
  \* record kept for the feed-hold property (HoldSpec); "off" elsewhere
  hold_phase           \* "none", "held", "paused" or "resumed"

\* The variables of the scheduler, and those of the synchronisation wait.
sched ==
  <<SysTick, systick_len, systick_callbacks_array, fired, last_registered,
    systick_ub>>

sync == <<caller, sync_ret>>

\* The variables of the segment ring.
ring ==
  <<segment_buffer_head, segment_buffer_tail, prep_pc, segments_made,
    segments_executed>>

vars ==
  <<SYS_EXEC, rt_exec, sys_state, sys_old_state, sys_abort, sys_autostart,
    settings_auto_start, report_rqsts, reports, plan_blocks, pc, interrupts,
    state0, acted, cleared, calls, emitted, reports_read, block_seen,
    sync, sched, ring, hold_phase>>

hist == <<state0, acted, cleared, calls, emitted, reports_read, block_seen>>

(***************************************************************************)
(* systick.c: the callback table.  An entry is a callback_t: the 8 bytes   *)
(* of callback_time followed by the 2 bytes of the function pointer (AVR,  *)
(* no padding).  A function pointer is kept as its two address bytes,      *)
(* <<f, f>> for the address of function f and <<NULL, NULL>> for a null    *)
(* pointer, so that a byte-wise copy can be followed.  The table is kept   *)
(* as the sequence of its slots up to the last one ever written; the       *)
(* slots behind it still hold the zeroes of the static initialisation.     *)
(***************************************************************************)
MAX_CALLBACKS == 32

NULL == "NULL"

FnPtr(f) == <<f, f>>

ZeroEntry == [callback_time |-> 0, cb_function |-> FnPtr(NULL)]

Slots == 0..(MAX_CALLBACKS - 1)

\* systick_callbacks_array[i]
Slot(a, i) == IF i < Len(a) THEN a[i + 1] ELSE ZeroEntry

(***************************************************************************)
(* The record of a feed hold: "held" from the pass that handles FeedHold   *)
(* in Cycle, "paused" once CycleStop has moved the held machine to Queued, *)
(* "resumed" once CycleStart has been raised after the hold, "none"        *)
(* otherwise.  It is kept only where it starts as "none".                  *)
(***************************************************************************)
Recorded(phase, new) == IF phase = "off" THEN "off" ELSE new

AfterRaise(phase, f) ==
  IF f = EXEC_CYCLE_START /\ phase \in {"held", "paused"} THEN "resumed" ELSE phase

\* stepper_init() / st_reset(): the ring is empty, both indices at slot 0.
st_reset ==
  /\ segment_buffer_head = 0
  /\ segment_buffer_tail = 0
  /\ prep_pc = "out"
  /\ segments_made = 0
  /\ segments_executed = 0

\* systick_init(), on the zero-initialised statics.
systick_init ==
  /\ SysTick = 0
  /\ systick_len = 0
  /\ systick_callbacks_array = <<>>
  /\ fired = <<>>
  /\ last_registered = <<>>
  /\ systick_ub = "none"

(***************************************************************************)
(* State on entry to the primary loop of protocol_main_loop: a status      *)
(* report has been requested, and the machine is Idle unless it came up    *)
(* in Alarm.                                                               *)
(***************************************************************************)
MainInit ==
  /\ SYS_EXEC = {EXEC_RUNTIME_REPORT}
  /\ report_rqsts = {REQUEST_STATUS_REPORT}
  /\ sys_state \in {STATE_IDLE, STATE_ALARM}
  /\ sys_old_state = sys_state
  /\ sys_abort = FALSE
  /\ sys_autostart = FALSE
  /\ settings_auto_start \in BOOLEAN
  /\ rt_exec = {}
  /\ reports = {}
  /\ plan_blocks = 0
  /\ pc = "idle"
  /\ interrupts = 0
  /\ state0 = sys_state
  /\ acted = {}
  /\ cleared = {}
  /\ calls = <<>>
  /\ emitted = {}
  /\ reports_read = {}
  /\ block_seen = "none"
  /\ caller = "main_loop"
  /\ sync_ret = "none"

Init == MainInit /\ systick_init /\ st_reset /\ hold_phase = "off"

(***************************************************************************)
(* Engine and planner collaborators (stepper.c and planner.c are outside   *)
(* the sources at hand; only stepper.h declares them).                     *)
(***************************************************************************)
\* plan_get_current_block() != NULL
plan_get_current_block == plan_blocks > 0

\* st_prep_buffer(): refills the segment ring from the current block; a
\* block whose steps are exhausted is discarded.  `used` is the number of
\* blocks this call exhausts.
st_prep_buffer(blocks, used) == IF blocks >= used THEN blocks - used ELSE 0

(***************************************************************************)
(* protocol_execute_runtime                                                *)
(***************************************************************************)
InPass == pc \notin {"idle", "returned"}

\* uint8_t rt_exec = SYS_EXEC;
Exec_Snapshot ==
  /\ pc \in {"idle", "returned"}
  /\ ~sys_abort
  /\ rt_exec' = SYS_EXEC
  /\ pc' = "service"
  /\ state0' = sys_state
  /\ acted' = {}
  /\ cleared' = {}
  /\ calls' = <<>>
  /\ emitted' = {}
  /\ reports_read' = {}
  /\ block_seen' = "none"
  /\ UNCHANGED <<SYS_EXEC, sys_state, sys_old_state, sys_abort, sys_autostart,
                 settings_auto_start, report_rqsts, reports, plan_blocks,
                 interrupts>>
  /\ UNCHANGED <<sync, sched, ring, hold_phase>>

\* protocol_check_required_reports(): a state change, or a change of the
\* limit or e-stop pins (input pins_changed), requests a report.
StateChangeRequests(s, old) == IF s # old THEN {REQUEST_STATUS_REPORT} ELSE {}

PinChangeRequests(pins_changed) ==
  IF pins_changed THEN {REQUEST_LIMIT_REPORT} ELSE {}

\* if (sys.state == STATE_IDLE && linenumber_peek()) { request_eol_report(); }
\* (input lines_pending; the request made is a status report request)
EolRequests(s, lines_pending) ==
  IF s = STATE_IDLE /\ lines_pending THEN {REQUEST_STATUS_REPORT} ELSE {}

\* systick_service_callbacks(); maybe_reinit_motors();
\* protocol_check_required_reports(); st_check_disable(); the end-of-line
\* report request; then the test if (rt_exec) that guards all flag handling.
Exec_Service ==
  /\ pc = "service"
  /\ \E pins_changed \in BOOLEAN, lines_pending \in BOOLEAN :
       LET rq == StateChangeRequests(sys_state, sys_old_state)
                   \cup PinChangeRequests(pins_changed)
                   \cup EolRequests(sys_state, lines_pending)
       IN /\ report_rqsts' = report_rqsts \cup rq
          /\ SYS_EXEC' = IF rq # {} THEN SYS_EXEC \cup {EXEC_RUNTIME_REPORT}
                         ELSE SYS_EXEC
  /\ sys_old_state' = sys_state
  /\ pc' = IF rt_exec # {} THEN "alarm" ELSE "reload"
  /\ UNCHANGED <<rt_exec, sys_state, sys_abort, sys_autostart,
                 settings_auto_start, reports, plan_blocks>>
  /\ UNCHANGED <<interrupts, state0, acted, cleared, calls, emitted, reports_read, block_seen>>
  /\ UNCHANGED <<sync, sched, ring, hold_phase>>

AlarmFlags == {EXEC_ALARM, EXEC_CRIT_EVENT}

\* if (rt_exec & EXEC_RESET) { sys.abort = true; return; }
\* The position after the alarm block, and the abort condition.
AfterAlarmPc_NoReturn(rt) == "report"

AfterAlarmPc(rt) == IF EXEC_RESET \in rt THEN "returned" ELSE "report"

AfterAlarmAbort(rt) == EXEC_RESET \in rt

\* Bits that the lockout entry removes: bit_false(SYS_EXEC,EXEC_RESET)
LockoutEntryMask == {EXEC_RESET}

\* if (rt_exec & (EXEC_ALARM | EXEC_CRIT_EVENT)) { ... } up to the lockout
\* loop when critical, else through bit_false(SYS_EXEC,(EXEC_ALARM |
\* EXEC_CRIT_EVENT)) and the reset test.
Exec_Alarm ==
  /\ pc = "alarm"
  /\ IF rt_exec \cap AlarmFlags # {}
     THEN /\ sys_state' = STATE_ALARM
          /\ acted' = acted \cup (rt_exec \cap AlarmFlags)
          /\ IF EXEC_CRIT_EVENT \in rt_exec
             THEN /\ emitted' = emitted \cup {"alarm_message", "critical_event"}
                  /\ SYS_EXEC' = SYS_EXEC \ LockoutEntryMask
                  /\ cleared' = cleared \cup (SYS_EXEC \cap LockoutEntryMask)
                  /\ pc' = "lockout"
                  /\ UNCHANGED sys_abort
             ELSE /\ emitted' = emitted \cup {"alarm_message"}
                  /\ SYS_EXEC' = SYS_EXEC \ AlarmFlags
                  /\ cleared' = cleared \cup (SYS_EXEC \cap AlarmFlags)
                  /\ pc' = AfterAlarmPc(rt_exec)
                  /\ sys_abort' = AfterAlarmAbort(rt_exec)
     ELSE /\ pc' = AfterAlarmPc(rt_exec)
          /\ sys_abort' = AfterAlarmAbort(rt_exec)
          /\ UNCHANGED <<sys_state, SYS_EXEC, acted, cleared, emitted>>
  /\ UNCHANGED <<rt_exec, sys_old_state, sys_autostart, settings_auto_start,
                 report_rqsts, reports, plan_blocks>>
  /\ UNCHANGED <<interrupts, state0, calls, reports_read, block_seen>>
  /\ UNCHANGED <<sync, sched, ring>>
  /\ hold_phase' = Recorded(hold_phase,
                       IF rt_exec \cap AlarmFlags # {} THEN "none" ELSE hold_phase)

\* do { } while (bit_isfalse(SYS_EXEC,EXEC_RESET));
\* An iteration that finds the bit clear changes nothing; the loop is left
\* by the iteration that finds it set.
LockoutExit_Always(flags) == TRUE

LockoutExit(flags) == EXEC_RESET \in flags

Exec_Lockout ==
  /\ pc = "lockout"
  /\ LockoutExit(SYS_EXEC)
  /\ pc' = "alarm_clear"
  /\ UNCHANGED <<SYS_EXEC, rt_exec, sys_state, sys_old_state, sys_abort,
                 sys_autostart, settings_auto_start, report_rqsts, reports,
                 plan_blocks>>
  /\ UNCHANGED <<interrupts, state0, acted, cleared, calls, emitted, reports_read, block_seen>>
  /\ UNCHANGED <<sync, sched, ring, hold_phase>>

\* After the lockout: bit_false(SYS_EXEC,(EXEC_ALARM | EXEC_CRIT_EVENT));
\* sys.alarm = 0; then the reset test on the snapshot.
Exec_AlarmClear ==
  /\ pc = "alarm_clear"
  /\ SYS_EXEC' = SYS_EXEC \ AlarmFlags
  /\ cleared' = cleared \cup (SYS_EXEC \cap AlarmFlags)
  /\ pc' = AfterAlarmPc(rt_exec)
  /\ sys_abort' = AfterAlarmAbort(rt_exec)
  /\ UNCHANGED <<rt_exec, sys_state, sys_old_state, sys_autostart,
                 settings_auto_start, report_rqsts, reports, plan_blocks>>
  /\ UNCHANGED <<interrupts, state0, acted, calls, emitted, reports_read, block_seen>>
  /\ UNCHANGED <<sync, sched, ring, hold_phase>>

(***************************************************************************)
(* Runtime reports: one category per pass, status first.                   *)
(***************************************************************************)
\* The if / else-if chain: the category the pass services for request set r.
ServicedReport(r) ==
  IF REQUEST_STATUS_REPORT \in r THEN {REQUEST_STATUS_REPORT}
  ELSE IF REQUEST_LIMIT_REPORT \in r THEN {REQUEST_LIMIT_REPORT}
  ELSE IF REQUEST_COUNTER_REPORT \in r THEN {REQUEST_COUNTER_REPORT}
  ELSE IF REQUEST_VOLTAGE_REPORT \in r THEN {REQUEST_VOLTAGE_REPORT}
  ELSE IF REQUEST_EDGE_REPORT \in r THEN {REQUEST_EDGE_REPORT}
  ELSE {}

\* The local request set after the chain; `more` is the answer of
\* report_realtime_status(): nonzero when lines remain to be reported.
ReportsLeft(r, more) ==
  IF REQUEST_STATUS_REPORT \in r /\ more THEN r ELSE r \ ServicedReport(r)

\* if (rt_exec & EXEC_RUNTIME_REPORT) { uint8_t reports=sysflags.report_rqsts;
Exec_ReportRead ==
  /\ pc = "report"
  /\ IF EXEC_RUNTIME_REPORT \in rt_exec
     THEN /\ reports' = report_rqsts
          /\ reports_read' = report_rqsts
          /\ acted' = acted \cup {EXEC_RUNTIME_REPORT}
          /\ pc' = "report_reset"
     ELSE /\ pc' = "feed_hold"
          /\ UNCHANGED <<reports, reports_read, acted>>
  /\ UNCHANGED <<SYS_EXEC, rt_exec, sys_state, sys_old_state, sys_abort,
                 sys_autostart, settings_auto_start, report_rqsts, plan_blocks>>
  /\ UNCHANGED <<interrupts, state0, cleared, calls, emitted, block_seen>>
  /\ UNCHANGED <<sync, sched, ring, hold_phase>>

\* sysflags.report_rqsts=0; then the if / else-if chain that emits one report.
Exec_ReportReset ==
  /\ pc = "report_reset"
  /\ report_rqsts' = {}
  /\ emitted' = emitted \cup ServicedReport(reports)
  /\ \E more \in BOOLEAN : reports' = ReportsLeft(reports, more)
  /\ pc' = "report_merge"
  /\ UNCHANGED <<SYS_EXEC, rt_exec, sys_state, sys_old_state, sys_abort,
                 sys_autostart, settings_auto_start, plan_blocks>>
  /\ UNCHANGED <<interrupts, state0, acted, cleared, calls, reports_read, block_seen>>
  /\ UNCHANGED <<sync, sched, ring, hold_phase>>

\* if (0==(sysflags.report_rqsts|=reports))
\* (the local reports is dead from here on)
Exec_ReportMerge ==
  /\ pc = "report_merge"
  /\ report_rqsts' = report_rqsts \cup reports
  /\ reports' = {}
  /\ pc' = IF report_rqsts \cup reports = {} THEN "report_clear" ELSE "feed_hold"
  /\ UNCHANGED <<SYS_EXEC, rt_exec, sys_state, sys_old_state, sys_abort,
                 sys_autostart, settings_auto_start, plan_blocks>>
  /\ UNCHANGED <<interrupts, state0, acted, cleared, calls, emitted, reports_read, block_seen>>
  /\ UNCHANGED <<sync, sched, ring, hold_phase>>

\* bit_false(SYS_EXEC,EXEC_RUNTIME_REPORT);
Exec_ReportClear ==
  /\ pc = "report_clear"
  /\ SYS_EXEC' = SYS_EXEC \ {EXEC_RUNTIME_REPORT}
  /\ cleared' = cleared \cup (SYS_EXEC \cap {EXEC_RUNTIME_REPORT})
  /\ pc' = "feed_hold"
  /\ UNCHANGED <<rt_exec, sys_state, sys_old_state, sys_abort, sys_autostart,
                 settings_auto_start, report_rqsts, reports, plan_blocks>>
  /\ UNCHANGED <<interrupts, state0, acted, calls, emitted, reports_read, block_seen>>
  /\ UNCHANGED <<sync, sched, ring, hold_phase>>

(***************************************************************************)
(* Feed hold, cycle start, cycle stop, reload.                             *)
(***************************************************************************)
\* if (sys.state == STATE_CYCLE) { sys.state = STATE_HOLD; ...
FeedHoldApplies_Queued(s) == s \in {STATE_CYCLE, STATE_QUEUED}

FeedHoldApplies(s) == s = STATE_CYCLE

FeedHoldCalls == <<"st_update_plan_block_parameters", "st_prep_buffer">>

\* if (rt_exec & EXEC_FEED_HOLD) { ... bit_false(SYS_EXEC,EXEC_FEED_HOLD); }
Exec_FeedHold ==
  /\ pc = "feed_hold"
  /\ IF EXEC_FEED_HOLD \in rt_exec
     THEN /\ IF FeedHoldApplies(sys_state)
             THEN /\ sys_state' = STATE_HOLD
                  /\ calls' = calls \o FeedHoldCalls
                  /\ \E used \in 0..1 :
                       plan_blocks' = st_prep_buffer(plan_blocks, used)
                  /\ sys_autostart' = FALSE
             ELSE UNCHANGED <<sys_state, calls, plan_blocks, sys_autostart>>
          /\ SYS_EXEC' = SYS_EXEC \ {EXEC_FEED_HOLD}
          /\ cleared' = cleared \cup (SYS_EXEC \cap {EXEC_FEED_HOLD})
          /\ acted' = acted \cup {EXEC_FEED_HOLD}
     ELSE UNCHANGED <<sys_state, calls, plan_blocks, sys_autostart, SYS_EXEC,
                      cleared, acted>>
  /\ pc' = "cycle_start"
  /\ UNCHANGED <<rt_exec, sys_old_state, sys_abort, settings_auto_start,
                 report_rqsts, reports>>
  /\ UNCHANGED <<interrupts, state0, emitted, reports_read, block_seen>>
  /\ UNCHANGED <<sync, sched, ring>>
  /\ hold_phase' = Recorded(hold_phase,
                       IF EXEC_FEED_HOLD \in rt_exec /\ FeedHoldApplies(sys_state)
                       THEN "held" ELSE hold_phase)

\* !(sys.state & (STATE_HOMING | STATE_FORCESERVO | STATE_PROBING))
CycleStartBlocked(s) == s \in {STATE_HOMING, STATE_FORCESERVO, STATE_PROBING}

\* if (sys.state == STATE_QUEUED)
CycleStartApplies_Unguarded(s) == ~CycleStartBlocked(s)

CycleStartApplies(s) == ~CycleStartBlocked(s) /\ s = STATE_QUEUED

CycleStartCalls_WakeFirst == <<"st_wake_up", "st_prep_buffer">>

CycleStartCalls == <<"st_prep_buffer", "st_wake_up">>

\* The flag bits the cycle start block removes from SYS_EXEC: the block
\* holds no bit_false.
CycleStartMask == {}

\* if ((rt_exec & EXEC_CYCLE_START) && !(sys.state & (...))) { ... }
Exec_CycleStart ==
  /\ pc = "cycle_start"
  /\ IF EXEC_CYCLE_START \in rt_exec /\ CycleStartApplies(sys_state)
     THEN /\ sys_state' = STATE_CYCLE
          /\ calls' = calls \o CycleStartCalls
          /\ \E used \in 0..1 :
               plan_blocks' = st_prep_buffer(plan_blocks, used)
          /\ sys_autostart' = settings_auto_start
          /\ acted' = acted \cup {EXEC_CYCLE_START}
          /\ SYS_EXEC' = SYS_EXEC \ CycleStartMask
          /\ cleared' = cleared \cup (SYS_EXEC \cap CycleStartMask)
     ELSE UNCHANGED <<sys_state, calls, plan_blocks, sys_autostart, acted,
                      SYS_EXEC, cleared>>
  /\ pc' = "cycle_stop"
  /\ UNCHANGED <<rt_exec, sys_old_state, sys_abort, settings_auto_start,
                 report_rqsts, reports>>
  /\ UNCHANGED <<interrupts, state0, emitted, reports_read, block_seen>>
  /\ UNCHANGED <<sync, sched, ring>>
  /\ hold_phase' = Recorded(hold_phase,
                       IF /\ EXEC_CYCLE_START \in rt_exec
                          /\ CycleStartApplies(sys_state)
                          /\ hold_phase = "resumed"
                       THEN "none" ELSE hold_phase)

\* if ( plan_get_current_block() ) { sys.state = STATE_QUEUED; }
\* else { sys.state = STATE_IDLE; }
CycleStopState_Swapped(block) == IF block THEN STATE_IDLE ELSE STATE_QUEUED

CycleStopState(block) == IF block THEN STATE_QUEUED ELSE STATE_IDLE

\* if (rt_exec & EXEC_CYCLE_STOP) { ... bit_false(SYS_EXEC,EXEC_CYCLE_STOP); }
Exec_CycleStop ==
  /\ pc = "cycle_stop"
  /\ IF EXEC_CYCLE_STOP \in rt_exec
     THEN /\ sys_state' = CycleStopState(plan_get_current_block)
          /\ block_seen' = IF plan_get_current_block THEN "block" ELSE "empty"
          /\ SYS_EXEC' = SYS_EXEC \ {EXEC_CYCLE_STOP}
          /\ cleared' = cleared \cup (SYS_EXEC \cap {EXEC_CYCLE_STOP})
          /\ acted' = acted \cup {EXEC_CYCLE_STOP}
     ELSE UNCHANGED <<sys_state, block_seen, SYS_EXEC, cleared, acted>>
  /\ pc' = "reload"
  /\ UNCHANGED <<rt_exec, sys_old_state, sys_abort, sys_autostart,
                 settings_auto_start, report_rqsts, reports, plan_blocks>>
  /\ UNCHANGED <<interrupts, state0, calls, emitted, reports_read>>
  /\ UNCHANGED <<sync, sched, ring>>
  /\ hold_phase' = Recorded(hold_phase,
                       IF EXEC_CYCLE_STOP \in rt_exec /\ hold_phase \in {"held", "paused"}
                       THEN (IF plan_get_current_block THEN "paused" ELSE "none")
                       ELSE hold_phase)

\* sys.state & (STATE_CYCLE | STATE_HOLD | STATE_HOMING | STATE_FORCESERVO |
\* STATE_PROBING)
ReloadStates_NoHold ==
  {STATE_CYCLE, STATE_HOMING, STATE_FORCESERVO, STATE_PROBING}

ReloadStates ==
  {STATE_CYCLE, STATE_HOLD, STATE_HOMING, STATE_FORCESERVO, STATE_PROBING}

\* Reload step segment buffer; clear IO reset bit; return.
Exec_Reload ==
  /\ pc = "reload"
  /\ IF sys_state \in ReloadStates
     THEN /\ calls' = Append(calls, "st_prep_buffer")
          /\ \E used \in 0..1 :
               plan_blocks' = st_prep_buffer(plan_blocks, used)
     ELSE UNCHANGED <<calls, plan_blocks>>
  /\ pc' = "returned"
  /\ UNCHANGED <<SYS_EXEC, rt_exec, sys_state, sys_old_state, sys_abort,
                 sys_autostart, settings_auto_start, report_rqsts, reports>>
  /\ UNCHANGED <<interrupts, state0, acted, cleared, emitted, reports_read, block_seen>>
  /\ UNCHANGED <<sync, sched, ring, hold_phase>>

protocol_execute_runtime ==
  \/ Exec_Snapshot
  \/ Exec_Service
  \/ Exec_Alarm
  \/ Exec_Lockout
  \/ Exec_AlarmClear
  \/ Exec_ReportRead
  \/ Exec_ReportReset
  \/ Exec_ReportMerge
  \/ Exec_ReportClear
  \/ Exec_FeedHold
  \/ Exec_CycleStart
  \/ Exec_CycleStop
  \/ Exec_Reload

(***************************************************************************)
(* Callers in the main context, between two passes.  The record of the     *)
(* last pass is dropped when the main context goes on.                     *)
(***************************************************************************)
Between == pc \in {"idle", "returned"} /\ ~sys_abort

DropHistory ==
  /\ rt_exec' = {}
  /\ state0' = sys_state'
  /\ acted' = {}
  /\ cleared' = {}
  /\ calls' = <<>>
  /\ emitted' = {}
  /\ reports_read' = {}
  /\ block_seen' = "none"

\* void protocol_auto_cycle_start()
\*   { if (sys.flags & SYSFLAG_AUTOSTART) { SYS_EXEC |= EXEC_CYCLE_START; } }
protocol_auto_cycle_start ==
  /\ Between
  /\ sys_autostart
  /\ SYS_EXEC' = SYS_EXEC \cup {EXEC_CYCLE_START}
  /\ pc' = "idle"
  /\ UNCHANGED <<sys_state, sys_old_state, sys_abort, sys_autostart,
                 settings_auto_start, report_rqsts, reports, plan_blocks,
                 interrupts>>
  /\ DropHistory
  /\ UNCHANGED <<sync, sched, ring>>
  /\ hold_phase' = Recorded(hold_phase, AfterRaise(hold_phase, EXEC_CYCLE_START))

\* A motion line is planned (g-code is refused in Alarm): the planner queue
\* grows and an Idle machine becomes Queued.
Cmd_QueueBlock ==
  /\ Between
  /\ sys_state # STATE_ALARM
  /\ plan_blocks < MaxPlanBlocks
  /\ plan_blocks' = plan_blocks + 1
  /\ sys_state' = IF sys_state = STATE_IDLE THEN STATE_QUEUED ELSE sys_state
  /\ pc' = "idle"
  /\ UNCHANGED <<SYS_EXEC, sys_old_state, sys_abort, sys_autostart,
                 settings_auto_start, report_rqsts, reports, interrupts>>
  /\ DropHistory
  /\ UNCHANGED <<sync, sched, ring, hold_phase>>

\* A homing, force-servo or probing operation begins from Idle, or ends.
ModeStates == {STATE_HOMING, STATE_FORCESERVO, STATE_PROBING}

Cmd_SetMode ==
  /\ Between
  /\ \/ sys_state = STATE_IDLE /\ sys_state' \in ModeStates
     \/ sys_state \in ModeStates /\ sys_state' = STATE_IDLE
  /\ pc' = "idle"
  /\ UNCHANGED <<SYS_EXEC, sys_old_state, sys_abort, sys_autostart,
                 settings_auto_start, report_rqsts, reports, plan_blocks,
                 interrupts>>
  /\ DropHistory
  /\ UNCHANGED <<sync, sched, ring, hold_phase>>

\* After an abort the primary loop returns to main(), which reinitialises
\* the system and enters protocol_main_loop again: a status report is
\* requested, an Alarm state is kept, any other state becomes Idle.
MainLoopState(s) == IF s = STATE_ALARM THEN STATE_ALARM ELSE STATE_IDLE

protocol_main_loop ==
  /\ sys_abort
  /\ pc = "returned"
  /\ sys_abort' = FALSE
  /\ SYS_EXEC' = {EXEC_RUNTIME_REPORT}
  /\ report_rqsts' = {REQUEST_STATUS_REPORT}
  /\ sys_state' = MainLoopState(sys_state)
  /\ sys_old_state' = MainLoopState(sys_state)
  /\ sys_autostart' = FALSE
  /\ plan_blocks' = 0
  /\ interrupts' = 0
  /\ pc' = "idle"
  /\ UNCHANGED <<settings_auto_start, reports>>
  /\ DropHistory
  /\ UNCHANGED <<sync, sched, ring>>
  /\ hold_phase' = Recorded(hold_phase, "none")

(***************************************************************************)
(* Interrupt context: sets bits, at any point of the main context.         *)
(***************************************************************************)
RaisableFlags ==
  {EXEC_RESET, EXEC_ALARM, EXEC_CRIT_EVENT, EXEC_FEED_HOLD,
   EXEC_CYCLE_START, EXEC_CYCLE_STOP}

ISR_RaiseFlag(f) ==
  /\ ~sys_abort
  /\ interrupts < MaxInterrupts
  /\ interrupts' = interrupts + 1
  /\ SYS_EXEC' = SYS_EXEC \cup {f}
  /\ UNCHANGED <<rt_exec, sys_state, sys_old_state, sys_abort, sys_autostart,
                 settings_auto_start, report_rqsts, reports, plan_blocks, pc>>
  /\ UNCHANGED hist
  /\ UNCHANGED <<sync, sched, ring>>
  /\ hold_phase' = Recorded(hold_phase, AfterRaise(hold_phase, f))

\* SYS_EXEC |= EXEC_RUNTIME_REPORT; sysflags.report_rqsts |= r;
\* for every request r of rs, the requests of the interrupts taken since
\* the last step of the main context.
ISR_RequestReports(rs) ==
  /\ ~sys_abort
  /\ interrupts < MaxInterrupts
  /\ interrupts' = interrupts + 1
  /\ SYS_EXEC' = SYS_EXEC \cup {EXEC_RUNTIME_REPORT}
  /\ report_rqsts' = report_rqsts \cup rs
  /\ UNCHANGED <<rt_exec, sys_state, sys_old_state, sys_abort, sys_autostart,
                 settings_auto_start, reports, plan_blocks, pc>>
  /\ UNCHANGED hist
  /\ UNCHANGED <<sync, sched, ring, hold_phase>>

MainContext ==
  \/ protocol_execute_runtime
  \/ protocol_auto_cycle_start
  \/ Cmd_QueueBlock
  \/ Cmd_SetMode
  \/ protocol_main_loop

\* Spec: every flag may be raised by interrupts; their report requests are
\* status requests (limit requests come from the pin change detection).
Next ==
  \/ MainContext
  \/ \E f \in RaisableFlags : ISR_RaiseFlag(f)
  \/ ISR_RequestReports({REQUEST_STATUS_REPORT})

Spec == Init /\ [][Next]_vars

\* The pass has just returned to its caller.
PassEnd == pc = "returned"

(***************************************************************************)
(* C1: each flag bit a pass acted upon (RuntimeReport only once the        *)
(* request set is drained) has been cleared by that pass when it returns,  *)
(* and the pass cleared no bit it did not act upon.                        *)
(***************************************************************************)
C1_ClearsExactlyActed ==
  PassEnd =>
    /\ \A f \in acted :
         \/ f \in cleared
         \/ f = EXEC_RUNTIME_REPORT /\ report_rqsts # {}
    /\ cleared \subseteq acted

(***************************************************************************)
(* C2 as stated: a pass whose snapshot holds Reset sets the abort          *)
(* condition and returns having acted on no other flag: state unchanged,   *)
(* nothing handled or cleared, nothing emitted, no engine call.            *)
(***************************************************************************)
C2_ResetBeforeEveryFlag ==
  (PassEnd /\ EXEC_RESET \in rt_exec) =>
    /\ sys_abort
    /\ sys_state = state0
    /\ acted = {}
    /\ cleared = {}
    /\ emitted = {}
    /\ calls = <<>>

\* The flags whose handlers come after the reset test.
LaterFlags ==
  {EXEC_RUNTIME_REPORT, EXEC_FEED_HOLD, EXEC_CYCLE_START, EXEC_CYCLE_STOP}

(***************************************************************************)
(* C2 as amended: with Reset in the snapshot, Alarm and CriticalEvent are  *)
(* still handled first; then the abort condition is set and the pass       *)
(* returns without acting on RuntimeReport, FeedHold, CycleStart or        *)
(* CycleStop: no handler after the reset test is reached, none of those    *)
(* bits is handled or cleared, no runtime report is emitted, no engine     *)
(* function is called, and the state is unchanged unless Alarm or          *)
(* CriticalEvent made it Alarm.                                            *)
(***************************************************************************)
C2_ResetShortCircuits ==
  /\ (InPass /\ EXEC_RESET \in rt_exec) =>
        pc \in {"service", "alarm", "lockout", "alarm_clear"}
  /\ (PassEnd /\ EXEC_RESET \in rt_exec) =>
        /\ sys_abort
        /\ acted = rt_exec \cap AlarmFlags
        /\ cleared \cap LaterFlags = {}
        /\ emitted \cap ReportRequests = {}
        /\ calls = <<>>
        /\ sys_state = IF rt_exec \cap AlarmFlags # {} THEN STATE_ALARM ELSE state0

C2_Witness ==
  /\ PassEnd
  /\ sys_abort
  /\ {EXEC_RESET, EXEC_ALARM, EXEC_FEED_HOLD} \subseteq rt_exec
  /\ EXEC_FEED_HOLD \in SYS_EXEC
  /\ sys_state = STATE_ALARM

(***************************************************************************)
(* C3: a pass whose snapshot holds Alarm or CriticalEvent, and that is     *)
(* not aborted by Reset, returns with MachineState = Alarm.                *)
(***************************************************************************)
C3_AlarmPassEndsInAlarm ==
  (PassEnd /\ rt_exec \cap AlarmFlags # {} /\ ~sys_abort) =>
    sys_state = STATE_ALARM

(***************************************************************************)
(* C4: once MachineState is Alarm, no step moves it out of Alarm, and no   *)
(* step arms the engine, before the abort condition has been set.          *)
(***************************************************************************)
C4_AlarmSticksUntilReset ==
  [][(sys_state = STATE_ALARM /\ ~sys_abort) =>
       /\ sys_state' = STATE_ALARM
       /\ (calls' = calls \/ calls' = <<>> \/ calls'[Len(calls')] # "st_wake_up")]_vars

(***************************************************************************)
(* The main context keeps running: a pass in progress takes its next step, *)
(* and the primary loop keeps calling the dispatcher.                      *)
(***************************************************************************)
FairSpec == Spec /\ WF_vars(protocol_execute_runtime)

\* The pass is in the critical-event busy-wait.
InLockout == pc = "lockout"

\* The state the main context owns: everything but the two words that
\* interrupts write.
MainOwned ==
  <<rt_exec, sys_state, sys_old_state, sys_abort, sys_autostart,
    settings_auto_start, reports, plan_blocks, pc, hist>>

(***************************************************************************)
(* The lockout: a pass blocks nowhere but in the critical-event busy-wait, *)
(* which only a snapshot holding CriticalEvent enters; the entry discards  *)
(* a pending Reset, the wait changes nothing the main context owns, and    *)
(* the wait is left only when Reset is set.                                *)
(***************************************************************************)
C5_LockoutSafety ==
  /\ [](InPass /\ ~ENABLED protocol_execute_runtime =>
          InLockout /\ EXEC_RESET \notin SYS_EXEC)
  /\ [](InLockout => EXEC_CRIT_EVENT \in rt_exec)
  /\ [][(~InLockout /\ InLockout') => EXEC_RESET \notin SYS_EXEC']_vars
  /\ [][(InLockout /\ InLockout') => UNCHANGED MainOwned]_vars
  /\ [][(InLockout /\ ~InLockout') => EXEC_RESET \in SYS_EXEC]_vars

(***************************************************************************)
(* C5 as stated: a pass that finds CriticalEvent discards a Reset pending  *)
(* at lockout entry, makes no progress until a Reset is set after entry,   *)
(* and once such a Reset is set it leaves the busy-wait and the system     *)
(* reaches the abort condition.                                            *)
(***************************************************************************)
C5_ResetLeadsToAbort ==
  /\ C5_LockoutSafety
  /\ (InLockout /\ EXEC_RESET \in SYS_EXEC) ~> sys_abort

(***************************************************************************)
(* C5 as amended: as stated, except that after the Reset the system        *)
(* reaches the abort condition unless a CriticalEvent raised again before  *)
(* the aborting pass takes its snapshot sends it into a new lockout, which *)
(* discards that Reset.                                                    *)
(***************************************************************************)
C5_ResetLeadsToAbortOrNewLockout ==
  /\ C5_LockoutSafety
  /\ (InLockout /\ EXEC_RESET \in SYS_EXEC) ~>
       (sys_abort \/ (InLockout /\ EXEC_RESET \notin SYS_EXEC))

C5_Witness ==
  /\ PassEnd
  /\ sys_abort
  /\ EXEC_CRIT_EVENT \in rt_exec
  /\ EXEC_RESET \in cleared
  /\ "critical_event" \in emitted

\* The state in which the handlers after the reset test find the machine:
\* Alarm when the snapshot held Alarm or CriticalEvent, else the state at
\* the snapshot.
StateAtHandlers ==
  IF rt_exec \cap AlarmFlags # {} THEN STATE_ALARM ELSE state0

\* In the pass's engine calls, the first st_wake_up comes after a
\* st_prep_buffer.
PrepBeforeWake ==
  \E j \in DOMAIN calls :
    /\ calls[j] = "st_wake_up"
    /\ \A k \in 1..(j - 1) : calls[k] # "st_wake_up"
    /\ \E i \in 1..(j - 1) : calls[i] = "st_prep_buffer"

\* A pass, not aborted by Reset, that finds CycleStart with the machine Queued.
StartsCycle ==
  /\ PassEnd
  /\ EXEC_CYCLE_START \in rt_exec
  /\ EXEC_RESET \notin rt_exec
  /\ StateAtHandlers = STATE_QUEUED

C7_FeedHold ==
  /\ []((PassEnd /\ EXEC_FEED_HOLD \in rt_exec /\ EXEC_RESET \notin rt_exec) =>
          /\ EXEC_FEED_HOLD \in acted
          /\ EXEC_FEED_HOLD \in cleared)
  /\ [][(pc = "feed_hold" /\ pc' = "cycle_start" /\ EXEC_FEED_HOLD \in rt_exec) =>
          /\ EXEC_FEED_HOLD \notin SYS_EXEC'
          /\ IF sys_state = STATE_CYCLE
             THEN /\ sys_state' = STATE_HOLD
                  /\ ~sys_autostart'
                  /\ calls' = calls \o
                       <<"st_update_plan_block_parameters", "st_prep_buffer">>
             ELSE UNCHANGED <<sys_state, sys_autostart, calls>>]_vars

C7_Witness ==
  /\ PassEnd
  /\ EXEC_FEED_HOLD \in rt_exec
  /\ state0 = STATE_CYCLE
  /\ sys_state = STATE_HOLD
  /\ EXEC_FEED_HOLD \notin SYS_EXEC
  /\ calls = <<"st_update_plan_block_parameters", "st_prep_buffer", "st_prep_buffer">>

(***************************************************************************)
(* C8: a pass whose snapshot holds CycleStop, and that is not aborted by   *)
(* Reset, has cleared the CycleStop bit and returns in Queued when the     *)
(* planner has a current block and in Idle when it has none.               *)
(***************************************************************************)
C8_CycleStop ==
  (PassEnd /\ EXEC_CYCLE_STOP \in rt_exec /\ EXEC_RESET \notin rt_exec) =>
    /\ EXEC_CYCLE_STOP \in cleared
    /\ block_seen = (IF plan_blocks > 0 THEN "block" ELSE "empty")
    /\ plan_blocks > 0 => sys_state = STATE_QUEUED
    /\ plan_blocks = 0 => sys_state = STATE_IDLE

C8_Witness ==
  /\ PassEnd
  /\ EXEC_CYCLE_STOP \in rt_exec
  /\ state0 = STATE_CYCLE
  /\ plan_blocks = 0
  /\ sys_state = STATE_IDLE
  /\ EXEC_CYCLE_STOP \notin SYS_EXEC

(***************************************************************************)
(* C9 as stated: every pass that begins in Cycle, Hold, Homing, ForceServo *)
(* or Probing calls prep_buffer before it returns, whatever its snapshot.  *)
(***************************************************************************)
C9_ReloadWhateverFlags ==
  (PassEnd /\ state0 \in ReloadStates) => \E i \in DOMAIN calls : calls[i] = "st_prep_buffer"

(***************************************************************************)
(* C9 as amended: every pass that is not aborted by Reset and whose state  *)
(* after flag handling is Cycle, Hold, Homing, ForceServo or Probing ends  *)
(* with a call of prep_buffer; in particular every pass that begins in one *)
(* of these states with none of Reset, Alarm, CriticalEvent and CycleStop  *)
(* in its snapshot.                                                        *)
(***************************************************************************)
C9_ReloadInMotionStates ==
  /\ (PassEnd /\ ~sys_abort /\ sys_state \in
        {STATE_CYCLE, STATE_HOLD, STATE_HOMING, STATE_FORCESERVO, STATE_PROBING}) =>
       (calls # <<>> /\ calls[Len(calls)] = "st_prep_buffer")
  /\ (/\ PassEnd
      /\ state0 \in {STATE_CYCLE, STATE_HOLD, STATE_HOMING, STATE_FORCESERVO,
                     STATE_PROBING}
      /\ rt_exec \cap {EXEC_RESET, EXEC_ALARM, EXEC_CRIT_EVENT, EXEC_CYCLE_STOP} = {}) =>
       \E i \in DOMAIN calls : calls[i] = "st_prep_buffer"

C9_Witness ==
  /\ PassEnd
  /\ state0 = STATE_HOLD
  /\ rt_exec = {EXEC_CYCLE_START}
  /\ calls = <<"st_prep_buffer">>

\* The order of the report categories, highest priority first.
ReportPriority ==
  <<REQUEST_STATUS_REPORT, REQUEST_LIMIT_REPORT, REQUEST_COUNTER_REPORT,
    REQUEST_VOLTAGE_REPORT, REQUEST_EDGE_REPORT>>

HighestPending(r) ==
  {ReportPriority[i] : i \in {j \in DOMAIN ReportPriority :
      /\ ReportPriority[j] \in r
      /\ \A k \in 1..(j - 1) : ReportPriority[k] \notin r}}

(***************************************************************************)
(* C10: a pass that handles RuntimeReport emits at most one report         *)
(* category, the highest-priority one of the request set it read; every    *)
(* other request it read is still pending when it returns; and the         *)
(* RuntimeReport flag is still set when it returns unless the request set  *)
(* is empty.                                                               *)
(***************************************************************************)
C10_OneReportPerPass ==
  (PassEnd /\ EXEC_RUNTIME_REPORT \in acted) =>
    /\ Cardinality(emitted \cap ReportRequests) <= 1
    /\ emitted \cap ReportRequests = HighestPending(reports_read)
    /\ (reports_read \ emitted) \subseteq report_rqsts
    /\ report_rqsts # {} => EXEC_RUNTIME_REPORT \in SYS_EXEC

(***************************************************************************)
(* protocol_buffer_synchronize: called from the main context between two   *)
(* passes (coolant_run and the other callers that need the planner         *)
(* drained); it polls the dispatcher until the planner has no current      *)
(* block and the machine is not in Cycle, or until an abort.               *)
(***************************************************************************)
InSync == caller = "buffer_synchronize"

\* if (sys.state == STATE_CYCLE) { sys.flags |= SYSFLAG_AUTOSTART; }
Sync_Call ==
  /\ caller = "main_loop"
  /\ Between
  /\ caller' = "buffer_synchronize"
  /\ sync_ret' = "none"
  /\ sys_autostart' = IF sys_state = STATE_CYCLE THEN TRUE ELSE sys_autostart
  /\ pc' = "sync_test"
  /\ UNCHANGED <<SYS_EXEC, sys_state, sys_old_state, sys_abort,
                 settings_auto_start, report_rqsts, reports, plan_blocks,
                 interrupts>>
  /\ DropHistory
  /\ UNCHANGED <<sched, ring, hold_phase>>

\* while (plan_get_current_block() || (sys.state == STATE_CYCLE))
SyncWaits_BlockOnly(block, s) == block

SyncWaits(block, s) == block \/ s = STATE_CYCLE

Sync_Test ==
  /\ pc = "sync_test"
  /\ IF SyncWaits(plan_get_current_block, sys_state)
     THEN UNCHANGED sync
     ELSE caller' = "main_loop" /\ sync_ret' = "drained"
  /\ pc' = "idle"
  /\ UNCHANGED <<SYS_EXEC, rt_exec, sys_state, sys_old_state, sys_abort,
                 sys_autostart, settings_auto_start, report_rqsts, reports,
                 plan_blocks, interrupts>>
  /\ UNCHANGED <<hist, sched, ring, hold_phase>>

\* protocol_execute_runtime(); inside the loop
Sync_Pass ==
  /\ InSync
  /\ pc # "returned"
  /\ protocol_execute_runtime

\* if (sys.abort) { return; }
Sync_AbortTest ==
  /\ InSync
  /\ pc = "returned"
  /\ IF sys_abort
     THEN caller' = "main_loop" /\ sync_ret' = "aborted" /\ pc' = pc
     ELSE pc' = "sync_test" /\ UNCHANGED sync
  /\ UNCHANGED <<SYS_EXEC, rt_exec, sys_state, sys_old_state, sys_abort,
                 sys_autostart, settings_auto_start, report_rqsts, reports,
                 plan_blocks, interrupts>>
  /\ UNCHANGED <<hist, sched, ring, hold_phase>>

protocol_buffer_synchronize ==
  \/ Sync_Call
  \/ Sync_Test
  \/ Sync_Pass
  \/ Sync_AbortTest

\* The engine, armed and with no step left to make (the hold has come to a
\* stop, or the last block of the cycle is exhausted), raises CycleStop.
Engine_CycleStop ==
  /\ ~sys_abort
  /\ \/ sys_state = STATE_HOLD
     \/ sys_state = STATE_CYCLE /\ ~plan_get_current_block
  /\ EXEC_CYCLE_STOP \notin SYS_EXEC
  /\ SYS_EXEC' = SYS_EXEC \cup {EXEC_CYCLE_STOP}
  /\ UNCHANGED <<rt_exec, sys_state, sys_old_state, sys_abort, sys_autostart,
                 settings_auto_start, report_rqsts, reports, plan_blocks, pc,
                 interrupts>>
  /\ UNCHANGED <<hist, sync, sched, ring, hold_phase>>

\* The engine, in Cycle, exhausts a block: the next st_prep_buffer()
\* discards it.
Engine_Consumes ==
  /\ sys_state = STATE_CYCLE
  /\ protocol_execute_runtime
  /\ plan_blocks' < plan_blocks

\* The flags that the operator's input raises.
OperatorFlags == {EXEC_RESET, EXEC_FEED_HOLD, EXEC_CYCLE_START}

\* The primary loop around the wait: lines are planned, passes run, the
\* system is reinitialised after an abort.
SyncMainLoop ==
  /\ caller = "main_loop"
  /\ \/ protocol_execute_runtime
     \/ protocol_auto_cycle_start
     \/ Cmd_QueueBlock
     \/ protocol_main_loop

SyncNext ==
  \/ SyncMainLoop
  \/ protocol_buffer_synchronize
  \/ \E f \in OperatorFlags : ISR_RaiseFlag(f)
  \/ Engine_CycleStop

SyncSpec == Init /\ [][SyncNext]_vars

\* The main context keeps running, and the engine does its part.
FairSyncSpec ==
  /\ SyncSpec
  /\ WF_vars(protocol_buffer_synchronize)
  /\ WF_vars(Engine_CycleStop)
  /\ SF_vars(Engine_Consumes)

(***************************************************************************)
(* C11: protocol_buffer_synchronize returns without abort only when the    *)
(* planner has no current block and the machine is not in Cycle; once the  *)
(* abort condition is set during the wait, the pass that set it has        *)
(* returned and no step of a further pass is taken before the return.      *)
(***************************************************************************)
C11_SyncReturns ==
  /\ [][(InSync /\ caller' = "main_loop") =>
          \/ sys_abort /\ sync_ret' = "aborted"
          \/ /\ ~sys_abort
             /\ sync_ret' = "drained"
             /\ ~plan_get_current_block
             /\ sys_state # STATE_CYCLE]_vars
  /\ [](InSync /\ sys_abort => pc = "returned")
  /\ [][(InSync /\ sys_abort) => (pc' = pc /\ rt_exec' = rt_exec)]_vars

C11_Witness ==
  /\ sync_ret = "drained"
  /\ caller = "main_loop"
  /\ pc = "idle"
  /\ state0 = STATE_CYCLE
  /\ EXEC_CYCLE_STOP \in acted
  /\ sys_state = STATE_IDLE
  /\ plan_blocks = 0

(***************************************************************************)
(* C12: every call of protocol_buffer_synchronize eventually returns, the  *)
(* engine consuming blocks and raising CycleStop while it is armed.        *)
(***************************************************************************)
C12_SyncTerminates == InSync ~> ~InSync

(***************************************************************************)
(* systick.c: the callback scheduler.                                      *)
(***************************************************************************)
\* Bounds of the scheduler model.
MaxTick == 2

MaxDelay == 1

\* Entries registered by the program and not yet removed, in SchedSpec.
MaxPending == 2

\* The variables of the dispatcher and of the engine, which the scheduler
\* does not touch.
disp ==
  <<SYS_EXEC, rt_exec, sys_state, sys_old_state, sys_abort, sys_autostart,
    settings_auto_start, report_rqsts, reports, plan_blocks, pc, interrupts,
    hist, sync, ring, hold_phase>>

\* sizeof(uint64_t), and sizeof(callback_t) with the 2-byte function pointer
TimeBytes == 8

EntrySize == TimeBytes + 2

\* The callbacks: signals_callback registers itself again when it runs; a
\* one-shot callback leaves the scheduler alone.
Callbacks == {"signals_callback", "one_shot"}

\* Model value of SIGNALS_CALLBACK_INTERVAL (signals.h), in ticks.
SIGNALS_CALLBACK_INTERVAL == 1

\* int cmp(const void * a, const void * b)
(***************************************************************************)
(* SysTick and callback_time are uint64_t.  A value within reach of the    *)
(* wrap is kept as its distance from it: x >= 0 stands for x, and x < 0    *)
(* for 2^64 + x, so that SysTick++ and SysTick + ms_later are x + 1 and    *)
(* x + ms_later whether they wrap or not.  The C comparisons see the       *)
(* unsigned values: every x < 0 is larger than every x >= 0.               *)
(***************************************************************************)
U64Less(a, b) == IF (a < 0) = (b < 0) THEN a < b ELSE b < 0

cmp(cb_a, cb_b) ==
  IF U64Less(cb_a.callback_time, cb_b.callback_time) THEN 1
  ELSE IF U64Less(cb_b.callback_time, cb_a.callback_time) THEN -1
  ELSE 0

\* The orders qsort() may leave the slots idx of a in: every order in which
\* no element is placed after one that cmp places it before; the order of
\* elements that compare equal is unspecified.
RECURSIVE SortedOrders(_, _)
SortedOrders(a, idx) ==
  IF idx = {} THEN {<<>>}
  ELSE LET heads == {a[i] : i \in {k \in idx : \A j \in idx : cmp(a[k], a[j]) <= 0}}
       IN UNION {LET i == CHOOSE k \in idx : a[k] = e
                 IN {<<e>> \o r : r \in SortedOrders(a, idx \ {i})} : e \in heads}

\* qsort(systick_callbacks_array, systick_len, sizeof(callback_t), cmp)
systick_sort_callback_array(a, len) ==
  {r \o SubSeq(a, len + 1, Len(a)) : r \in SortedOrders(a, 1..len)}

\* systick_callbacks_array[i] = e, in the sequence kept for the table
Written(a, i, e) ==
  [j \in 1..(IF Len(a) > i THEN Len(a) ELSE i + 1) |->
     IF j = i + 1 THEN e ELSE Slot(a, j - 1)]

\* The outcomes of systick_register_callback(ms_later, func) on table a of
\* length len at tick now: there is no capacity test, so with len at
\* MAX_CALLBACKS the entry is written behind the table.
Registered(a, len, now, ms_later, func) ==
  LET to_insert == [callback_time |-> now + ms_later, cb_function |-> FnPtr(func)]
  IN IF len >= MAX_CALLBACKS
     THEN {[array |-> a, len |-> (len + 1) % 256, ub |-> "write_outside_table"]}
     ELSE {[array |-> r, len |-> len + 1, ub |-> "none"] :
             r \in systick_sort_callback_array(Written(a, len, to_insert), len + 1)}

systick_register_callback(ms_later, func) ==
  /\ systick_ub = "none"
  /\ \E o \in Registered(systick_callbacks_array, systick_len, SysTick, ms_later, func) :
       /\ systick_callbacks_array' = o.array
       /\ systick_len' = o.len
       /\ systick_ub' = o.ub
  /\ fired' = <<>>
  /\ last_registered' = <<[ms_later |-> ms_later, func |-> func,
                           callback_time |-> SysTick + ms_later]>>
  /\ UNCHANGED <<SysTick, disp>>

\* The callback_time left by a copy of n bytes, where dst and src are the
\* destination and source values from byte j up (little endian) and offset
\* is the byte offset of the destination entry.  What is left above the
\* last byte is 0, or -1 for a value kept as its distance below the wrap.
RECURSIVE MovedTime(_, _, _, _, _)
MovedTime(dst, src, offset, n, j) ==
  IF j = TimeBytes THEN (IF offset + j - 1 < n THEN src ELSE dst)
  ELSE (IF offset + j < n THEN src % 256 ELSE dst % 256)
       + 256 * MovedTime(dst \div 256, src \div 256, offset, n, j + 1)

\* memmove(&systick_callbacks_array[0], &systick_callbacks_array[1], n):
\* n BYTES are copied, each from EntrySize bytes further up.
memmove(a, n) ==
  [i \in 1..Len(a) |->
     LET offset == (i - 1) * EntrySize
         dst == a[i]
         src == Slot(a, i)
     IN [callback_time |->
           MovedTime(dst.callback_time, src.callback_time, offset, n, 0),
         cb_function |->
           <<IF offset + TimeBytes < n THEN src.cb_function[1] ELSE dst.cb_function[1],
             IF offset + TimeBytes + 1 < n THEN src.cb_function[2] ELSE dst.cb_function[2]>>]]

\* systick_len--;
LenAfterRemoval_All(len) == 0

LenAfterRemoval(len) == len - 1

\* if (systick_callbacks_array[0].callback_time >= SysTick)
ServiceTest(callback_time, now) == ~U64Less(callback_time, now)

\* The scheduler state after cb_function() has run: signals_callback has
\* registered itself again.
AfterCallback(a, len, now, ptr) ==
  IF ptr = FnPtr("signals_callback")
  THEN Registered(a, len, now, SIGNALS_CALLBACK_INTERVAL, "signals_callback")
  ELSE {[array |-> a, len |-> len, ub |-> "none"]}

\* void systick_service_callbacks()
systick_service_callbacks ==
  /\ systick_ub = "none"
  /\ LET e == Slot(systick_callbacks_array, 0)
     IN IF ServiceTest(e.callback_time, SysTick)
        THEN /\ fired' = <<[callback_time |-> e.callback_time,
                            cb_function |-> e.cb_function, now |-> SysTick]>>
             /\ IF e.cb_function \notin {FnPtr(f) : f \in Callbacks}
                THEN /\ systick_ub' = "call_of_invalid_pointer"
                     /\ UNCHANGED <<systick_callbacks_array, systick_len>>
                ELSE \E o \in AfterCallback(systick_callbacks_array, systick_len,
                                            SysTick, e.cb_function) :
                       IF o.ub # "none"
                       THEN /\ systick_ub' = o.ub
                            /\ systick_callbacks_array' = o.array
                            /\ systick_len' = o.len
                       ELSE IF o.len = 0
                       THEN /\ systick_ub' = "memmove_size_wraps"
                            /\ systick_callbacks_array' = o.array
                            /\ systick_len' = 255
                       ELSE /\ systick_ub' = "none"
                            /\ systick_callbacks_array' = memmove(o.array, o.len - 1)
                            /\ systick_len' = LenAfterRemoval(o.len)
        ELSE /\ fired' = <<>>
             /\ UNCHANGED <<systick_callbacks_array, systick_len, systick_ub>>
  /\ last_registered' = <<>>
  /\ UNCHANGED <<SysTick, disp>>

\* ISR(TIMER1_COMPA_vect) { SysTick++; }
TIMER1_COMPA_vect ==
  /\ SysTick < MaxTick
  /\ SysTick' = SysTick + 1
  /\ fired' = <<>>
  /\ UNCHANGED <<systick_len, systick_callbacks_array, last_registered,
                 systick_ub, disp>>

Delays == 0..MaxDelay

\* SchedSpec: callbacks are registered with any delay while fewer than
\* MaxPending are stored, the dispatcher services the table, ticks advance.
SchedNext ==
  \/ \E d \in Delays, f \in Callbacks :
       systick_len < MaxPending /\ systick_register_callback(d, f)
  \/ systick_service_callbacks
  \/ TIMER1_COMPA_vect

SchedSpec == Init /\ [][SchedNext]_vars

\* CapSpec: within one tick, a caller registers a one-shot callback again
\* and again with the same delay, and the dispatcher services the table.
CapNext ==
  \/ systick_register_callback(MaxDelay, "one_shot")
  \/ systick_service_callbacks

CapSpec == Init /\ [][CapNext]_vars

\* The entries the table holds: its first systick_len slots.
Pending == [i \in 1..systick_len |-> Slot(systick_callbacks_array, i - 1)]

(***************************************************************************)
(* C13: the scheduler never invokes the action of an entry before its      *)
(* fire tick: every invocation is of an entry with callback_time <= now.   *)
(***************************************************************************)
C13_NeverEarly ==
  \A k \in DOMAIN fired : fired[k].callback_time <= fired[k].now

(***************************************************************************)
(* C14: the entry service() considers, slot 0, is one with the smallest    *)
(* callback_time of the entries in the table.                              *)
(***************************************************************************)
C14_FirstIsEarliest ==
  systick_ub = "none" =>
    \A i \in DOMAIN Pending : Pending[1].callback_time <= Pending[i].callback_time

\* A step that is a call of systick_register_callback.
RegisterCall == \E d \in Delays, f \in Callbacks : systick_register_callback(d, f)

(***************************************************************************)
(* C15: when service() invokes the action of an entry, that entry leaves   *)
(* the table and every other entry stays in it unchanged: the table        *)
(* after the call is the table before it without its first entry (stated   *)
(* for a one-shot action, which registers nothing itself).                 *)
(***************************************************************************)
C15_FiredEntryIsRemoved ==
  [][(/\ systick_service_callbacks
      /\ fired' # <<>>
      /\ fired'[1].cb_function = FnPtr("one_shot")
      /\ systick_ub' = "none") =>
        Pending' = Tail(Pending)]_vars

(***************************************************************************)
(* C16: the number of stored entries stays within 0 .. MAX_CALLBACKS and   *)
(* nothing is written outside the table.                                   *)
(***************************************************************************)
C16_WithinCapacity ==
  /\ systick_len \in 0..MAX_CALLBACKS
  /\ systick_ub \notin {"write_outside_table", "memmove_size_wraps"}

(***************************************************************************)
(* C17: systick_register_callback on a full table is refused: it leaves    *)
(* the table and its length as they were and writes nothing outside it.    *)
(***************************************************************************)
C17_FullTableRejects ==
  [][(systick_len >= MAX_CALLBACKS /\ RegisterCall) =>
        /\ UNCHANGED <<systick_callbacks_array, systick_len>>
        /\ systick_ub' = "none"]_vars

(***************************************************************************)
(* C18: a registration never invokes the action itself; and the service    *)
(* call that follows a registration with delay 0, every other entry in     *)
(* the table being due later, invokes the action registered.               *)
(***************************************************************************)
C18_ZeroDelayFiresNext ==
  /\ [][RegisterCall => fired' = <<>>]_vars
  /\ [][(/\ systick_service_callbacks
         /\ systick_ub = "none"
         /\ last_registered # <<>>
         /\ last_registered[1].ms_later = 0
         /\ \A i \in DOMAIN Pending :
              \/ Pending[i].callback_time > last_registered[1].callback_time
              \/ Pending[i] = [callback_time |-> last_registered[1].callback_time,
                               cb_function |-> FnPtr(last_registered[1].func)]) =>
           /\ Len(fired') = 1
           /\ fired'[1].cb_function = FnPtr(last_registered[1].func)
           /\ fired'[1].callback_time = last_registered[1].callback_time]_vars

(***************************************************************************)
(* C19: a call of service() invokes at most one action and takes at most   *)
(* one entry out of the table, however many entries are due; a call that   *)
(* invokes nothing leaves the table as it was, and a call whose behaviour  *)
(* is defined never adds to the count.                                     *)
(***************************************************************************)
C19_OnePerCall ==
  [][systick_service_callbacks =>
       /\ Len(fired') <= 1
       /\ systick_len' >= systick_len - 1
       /\ fired' = <<>> => UNCHANGED <<systick_callbacks_array, systick_len>>
       /\ systick_ub' = "none" => systick_len' <= systick_len]_vars

C19_Witness ==
  /\ systick_ub = "none"
  /\ Len(fired) = 1
  /\ fired[1].callback_time = SysTick
  /\ fired[1].cb_function = FnPtr("one_shot")
  /\ systick_len = 1
  /\ \A i \in DOMAIN Pending : Pending[i].callback_time = SysTick

(***************************************************************************)
(* C20: a registration places the new entry behind every entry with the    *)
(* same callback_time that the table already held, so that entries with    *)
(* equal fire ticks stand, and are considered, in the order in which they  *)
(* were registered.                                                        *)
(***************************************************************************)
C20_StableTies ==
  [][(RegisterCall /\ systick_ub' = "none") =>
        LET new == [callback_time |-> last_registered'[1].callback_time,
                    cb_function |-> FnPtr(last_registered'[1].func)]
        IN \E p \in DOMAIN Pending' :
             /\ Pending'[p] = new
             /\ \A q \in DOMAIN Pending' :
                  (Pending'[q].callback_time = new.callback_time /\ Pending'[q] # new)
                    => q < p]_vars

(***************************************************************************)
(* stepper.h: the segment ring between st_prep_buffer (main context) and   *)
(* the pulse interrupt.  stepper.c is outside the sources at hand; the     *)
(* ring follows its description: SEGMENT_BUFFER_SIZE slots, a head index   *)
(* advanced by the consumer, a tail index advanced by the producer, each   *)
(* a single byte, and a refill that enqueues only while a slot is free.    *)
(* One slot is kept free, so that equal indices mean an empty ring.        *)
(***************************************************************************)
SEGMENT_BUFFER_SIZE == 6

\* Segments the model lets the planner's blocks yield.
MaxSegments == 8

\* Everything but the ring.
notring ==
  <<SYS_EXEC, rt_exec, sys_state, sys_old_state, sys_abort, sys_autostart,
    settings_auto_start, report_rqsts, reports, plan_blocks, pc, interrupts,
    hist, sync, sched, hold_phase>>

NextIndex(i) == (i + 1) % SEGMENT_BUFFER_SIZE

\* "while the ring has free capacity"
RingHasFree_Always(head, tail) == TRUE

RingHasFree(head, tail) == NextIndex(tail) # head

\* Segments in the ring: enqueued and not yet executed.
Occupancy == segments_made - segments_executed

\* The dispatcher calls st_prep_buffer().
Refill_Call ==
  /\ prep_pc = "out"
  /\ prep_pc' = "test"
  /\ UNCHANGED <<segment_buffer_head, segment_buffer_tail, segments_made,
                 segments_executed, notring>>

\* The loop test: a free slot (the head index is read once, here) and a
\* block with steps left.
Refill_Test ==
  /\ prep_pc = "test"
  /\ prep_pc' = IF RingHasFree(segment_buffer_head, segment_buffer_tail)
                   /\ segments_made < MaxSegments
                THEN "enqueue"
                ELSE "out"
  /\ UNCHANGED <<segment_buffer_head, segment_buffer_tail, segments_made,
                 segments_executed, notring>>

\* The segment is computed into the slot at tail, then tail advances.
Refill_Enqueue ==
  /\ prep_pc = "enqueue"
  /\ segment_buffer_tail' = NextIndex(segment_buffer_tail)
  /\ segments_made' = segments_made + 1
  /\ prep_pc' = "test"
  /\ UNCHANGED <<segment_buffer_head, segments_executed, notring>>

\* The pulse interrupt has executed the last step of the segment at head.
Pulse_ISR ==
  /\ segment_buffer_head # segment_buffer_tail
  /\ segment_buffer_head' = NextIndex(segment_buffer_head)
  /\ segments_executed' = segments_executed + 1
  /\ UNCHANGED <<segment_buffer_tail, prep_pc, segments_made, notring>>

RingNext == Refill_Call \/ Refill_Test \/ Refill_Enqueue \/ Pulse_ISR

RingSpec == Init /\ [][RingNext]_vars

(***************************************************************************)
(* C21: the ring never holds more than SEGMENT_BUFFER_SIZE segments,       *)
(* whatever the interleaving of the refill and of the pulse interrupt;     *)
(* the tail index is moved by the refill only and the head index by the    *)
(* pulse interrupt only.                                                   *)
(***************************************************************************)
C21_RingWithinCapacity ==
  /\ [](Occupancy \in 0..SEGMENT_BUFFER_SIZE)
  /\ [][segment_buffer_tail' # segment_buffer_tail =>
          (prep_pc = "enqueue" /\ segments_made' = segments_made + 1
             /\ UNCHANGED segment_buffer_head)]_vars
  /\ [][segment_buffer_head' # segment_buffer_head =>
          (segments_executed' = segments_executed + 1
             /\ UNCHANGED <<segment_buffer_tail, prep_pc>>)]_vars

\* The ring as full as it gets, the refill having looked and left, after
\* the pulse interrupt had already freed slots.
C21_Witness ==
  /\ Occupancy = SEGMENT_BUFFER_SIZE - 1
  /\ segments_executed > 0
  /\ prep_pc = "out"
  /\ ~RingHasFree(segment_buffer_head, segment_buffer_tail)

(***************************************************************************)
(* C24: systick_service_callbacks on an empty table, the first call after  *)
(* systick_init included, invokes nothing and leaves the table empty.      *)
(***************************************************************************)
C24_EmptyServiceIsNoop ==
  [][(systick_service_callbacks /\ systick_len = 0) =>
        /\ fired' = <<>>
        /\ systick_len' = 0
        /\ systick_ub' = "none"
        /\ UNCHANGED systick_callbacks_array]_vars

\* The entries of sequence q equal to e.
Count(q, e) == Cardinality({i \in DOMAIN q : q[i] = e})

(***************************************************************************)
(* C23: when the action invoked is signals_callback, which registers       *)
(* itself again SIGNALS_CALLBACK_INTERVAL later, the call of service()     *)
(* takes the fired entry out of the table and nothing else: the table      *)
(* afterwards holds the entries it held, less the fired one, plus the new  *)
(* one, and is as long as before.                                          *)
(***************************************************************************)
C23_RearmKeepsTable ==
  [][(/\ systick_service_callbacks
      /\ systick_len > 0
      /\ fired' # <<>>
      /\ fired'[1].cb_function = FnPtr("signals_callback")) =>
        LET old == [callback_time |-> fired'[1].callback_time,
                    cb_function |-> fired'[1].cb_function]
            new == [callback_time |-> SysTick + SIGNALS_CALLBACK_INTERVAL,
                    cb_function |-> FnPtr("signals_callback")]
            Expected(e) == Count(Pending, e) - (IF e = old THEN 1 ELSE 0)
                                             + (IF e = new THEN 1 ELSE 0)
        IN /\ systick_ub' = "none"
           /\ systick_len' = systick_len
           /\ \A e \in {Pending[i] : i \in DOMAIN Pending}
                       \cup {Pending'[i] : i \in DOMAIN Pending'} \cup {new} :
                Count(Pending', e) = Expected(e)]_vars

(***************************************************************************)
(* WrapSpec: the scheduler when SysTick is WrapLead ticks short of         *)
(* wrapping to 0, with nothing registered yet; callbacks are then          *)
(* registered with delays that reach up to and across the wrap.            *)
(***************************************************************************)
WrapLead == 1

WrapInit ==
  /\ MainInit
  /\ st_reset
  /\ hold_phase = "off"
  /\ SysTick = 0 - WrapLead
  /\ systick_len = 0
  /\ systick_callbacks_array = <<>>
  /\ fired = <<>>
  /\ last_registered = <<>>
  /\ systick_ub = "none"

WrapDelays == 0..(WrapLead + 1)

WrapRegisterCall ==
  \E d \in WrapDelays, f \in Callbacks : systick_register_callback(d, f)

WrapNext ==
  \/ systick_len < MaxPending /\ WrapRegisterCall
  \/ systick_service_callbacks
  \/ TIMER1_COMPA_vect

WrapSpec == WrapInit /\ [][WrapNext]_vars

\* The registration recorded in r was made before the wrap for a time
\* after it.
Wrapped(r) == r.callback_time - r.ms_later < 0 /\ r.callback_time >= 0

(***************************************************************************)
(* C22: a callback whose callback_time = SysTick + ms_later has wrapped    *)
(* is invoked only once its delay has elapsed, and after its registration  *)
(* the entry in slot 0, the one service() looks at, is still one that is   *)
(* due first in real time.  (Distances from the wrap compare as real       *)
(* times do.)                                                              *)
(***************************************************************************)
C22_WrapKeepsOrder ==
  /\ [][(/\ systick_service_callbacks
         /\ last_registered # <<>>
         /\ Wrapped(last_registered[1])
         /\ fired' # <<>>
         /\ fired'[1].callback_time = last_registered[1].callback_time
         /\ fired'[1].cb_function = FnPtr(last_registered[1].func)) =>
           fired'[1].callback_time <= SysTick]_vars
  /\ [][(/\ WrapRegisterCall
         /\ systick_ub' = "none"
         /\ Wrapped(last_registered'[1])) =>
           \A i \in DOMAIN Pending' :
             Pending'[1].callback_time <= Pending'[i].callback_time]_vars

(***************************************************************************)
(* C25: a request bit that an interrupt sets in sysflags.report_rqsts      *)
(* after the dispatcher has read the set (the bits of report_rqsts that    *)
(* are not in the copy read) is still pending once the dispatcher has      *)
(* reset the set, and so can be served by a later pass.                    *)
(***************************************************************************)
C25_NoRequestLost ==
  [][(pc = "report_reset" /\ pc' = "report_merge") =>
        (report_rqsts \ reports_read) \subseteq report_rqsts']_vars

\* The pass has been through the critical-event lockout and has left it,
\* and the abort condition is not set (the record lasts until the main
\* context goes on after the pass).
Released == "critical_event" \in emitted /\ ~InLockout /\ ~sys_abort

\* Calls that arm or refill the engine.
ArmingCalls == {"st_wake_up", "st_prep_buffer"}

NoArming(c) == \A i \in DOMAIN c : c[i] \notin ArmingCalls

\* Positions of a pass up to the reset test that follows the alarm block.
UpToResetTest == {"service", "alarm", "lockout", "alarm_clear"}

(***************************************************************************)
(* C27: from the moment the lockout is left to the moment sys.abort is     *)
(* set the engine is not armed, not refilled and the state does not        *)
(* become Cycle.  In the rest of the pass that was locked out: no such     *)
(* call and no Cycle, whatever its stale snapshot holds.  From then on     *)
(* the Reset that released it stays set in SYS_EXEC until the abort        *)
(* condition is set or a new lockout is entered; while it is set, nothing  *)
(* outside a pass and no step of a pass up to its reset test arms the      *)
(* engine or enters Cycle; and a pass that has Reset in its snapshot       *)
(* never gets beyond its reset test.                                       *)
(***************************************************************************)
C27_NoArmingAfterRelease ==
  /\ [](Released => (sys_state # STATE_CYCLE /\ NoArming(calls)))
  /\ [][(Released /\ ~Released' /\ ~sys_abort' /\ ~InLockout') =>
          (EXEC_RESET \in SYS_EXEC' /\ sys_state' # STATE_CYCLE)]_vars
  /\ [][(EXEC_RESET \in SYS_EXEC /\ EXEC_RESET \notin SYS_EXEC') =>
          (InLockout' \/ sys_abort)]_vars
  /\ [][(EXEC_RESET \in SYS_EXEC /\ ~sys_abort /\ (~InPass \/ pc \in UpToResetTest)) =>
          /\ sys_state' = STATE_CYCLE => sys_state = STATE_CYCLE
          /\ (calls' = calls \/ NoArming(calls'))]_vars
  /\ [](InPass /\ EXEC_RESET \in rt_exec => pc \in UpToResetTest)

\* The pass that was locked out has run its handlers on a stale snapshot
\* that held CycleStart, with a block queued, the Reset that released it
\* still pending.
C27_Witness ==
  /\ Released
  /\ pc = "returned"
  /\ EXEC_RESET \in SYS_EXEC
  /\ EXEC_RESET \notin rt_exec
  /\ EXEC_CYCLE_START \in rt_exec
  /\ plan_get_current_block

(***************************************************************************)
(* HoldSpec: Spec, with the record of the feed hold kept.                  *)
(***************************************************************************)
HoldInit == MainInit /\ systick_init /\ st_reset /\ hold_phase = "none"

HoldSpec == HoldInit /\ [][Next]_vars

(***************************************************************************)
(* C26: once FeedHold handled in Cycle has moved the machine to Hold and   *)
(* CycleStop has moved it on to Queued, it stays Queued until CycleStart   *)
(* is raised after the hold (or an alarm or an abort ends the job): the    *)
(* CycleStart that began the held cycle does not start it again.           *)
(***************************************************************************)
C26_HoldUntilResumed == hold_phase = "paused" => sys_state = STATE_QUEUED

====
